---- MODULE Spec2Model ----
(***************************************************************************)
(* Model of src/server.js: the per-channel Soniox relay                    *)
(* (SonioxTranscriptionService), its transcript assembly, the stereo       *)
(* de-interleaving of downstream audio and the per-connection session.     *)
(*                                                                         *)
(* Text is a sequence of one-character strings.  A Buffer is a sequence of *)
(* byte values.  The upstream sockets of a service are kept in the         *)
(* sequence `socks` (one record per `new WebSocket`), `ws` is the index of *)
(* the socket `this.ws` refers to (0 for null).                            *)
(***************************************************************************)
EXTENDS Integers, Sequences, FiniteSets, TLC

\* ---------------------------------------------------------------- bounds
MaxSockets == 3      \* upstream sockets one service may create
MaxFrames == 3       \* downstream binary frames of one session
MaxBatches == 2      \* token batches delivered to one service
MaxBatchLen == 2     \* tokens in one batch
MaxFrameLen == 8     \* longest downstream frame that is de-interleaved

Channels == {"customer", "assistant"}
\* the channel whose upstream endpoint answers; the other service of the
\* session is driven by the session handlers only (its socket stays as
\* connect() and close() leave it)
Live == {"customer"}
Bytes == {0, 1}

VARIABLES svc, downstream, delivered, nFrames, proc, demux

vars == <<svc, downstream, delivered, nFrames, proc, demux>>

\* ------------------------------------------------------------ JS strings
Space == " "
Punct == {".", ",", "?", "!", ":", ";"}

RECURSIVE CollapseWs(_)
\* s.replace(/\s+/g, ' ')
CollapseWs(s) ==
  IF Len(s) = 0 THEN <<>>
  ELSE IF s[1] = Space /\ Len(s) > 1 /\ s[2] = Space THEN CollapseWs(Tail(s))
  ELSE <<s[1]>> \o CollapseWs(Tail(s))

RECURSIVE TrimLeft(_)
TrimLeft(s) == IF Len(s) > 0 /\ s[1] = Space THEN TrimLeft(Tail(s)) ELSE s

RECURSIVE TrimRight(_)
TrimRight(s) ==
  IF Len(s) > 0 /\ s[Len(s)] = Space THEN TrimRight(SubSeq(s, 1, Len(s) - 1)) ELSE s

\* s.trim()
Trim(s) == TrimRight(TrimLeft(s))

\* s.replace(/\s+/g, ' ').trim()
Normalize(s) == Trim(CollapseWs(s))

\* s.substring(n)
Substring(s, n) == IF n >= Len(s) THEN <<>> ELSE SubSeq(s, n + 1, Len(s))

\* s.match(/^[.,?!:;]/)
StartsWithPunct(s) == Len(s) > 0 /\ s[1] \in Punct

\* s.endsWith(' ')
EndsWithSpace(s) == Len(s) > 0 /\ s[Len(s)] = Space

IsPrefix(p, s) == Len(p) <= Len(s) /\ SubSeq(s, 1, Len(p)) = p

\* ------------------------------------------------------- de-interleaving
\* Buffer.alloc(size): a zero-filled buffer; a fractional size is truncated.
\* The argument is message.length / 2, given here as the length itself.
BufferAlloc(len) == [k \in 1..(len \div 2) |-> 0]

\* copy() that ignores targetStart
BufferCopyNoOffset(source, target, targetStart, sourceStart) ==
  [k \in 1..Len(target) |->
     IF (k - 1) + sourceStart < Len(source)
       THEN source[(k - 1) + sourceStart + 1]
       ELSE target[k]]

\* source.copy(target, targetStart, sourceStart): copies from sourceStart to
\* the END of source, as many bytes as fit into target from targetStart on.
BufferCopy(source, target, targetStart, sourceStart) ==
  [k \in 1..Len(target) |->
     IF k - 1 >= targetStart /\ (k - 1 - targetStart) + sourceStart < Len(source)
       THEN source[(k - 1 - targetStart) + sourceStart + 1]
       ELSE target[k]]

\* copy() raises ERR_OUT_OF_RANGE for sourceStart > source.length in runtimes
\* that validate the argument first (strict); older runtimes return 0 first
\* because nothing is left to copy.
CopyThrows(source, sourceStart, strict) == strict /\ sourceStart > Len(source)

RECURSIVE DeinterleaveLoop(_, _, _, _, _)
DeinterleaveLoop(message, i, customerAudio, assistantAudio, strict) ==
  IF ~(i * 4 < Len(message))
    THEN [customerAudio |-> customerAudio, assistantAudio |-> assistantAudio,
          threw |-> FALSE]
  ELSE IF CopyThrows(message, i * 4, strict)
    THEN [customerAudio |-> customerAudio, assistantAudio |-> assistantAudio,
          threw |-> TRUE]
  ELSE IF CopyThrows(message, i * 4 + 2, strict)
    THEN [customerAudio |-> BufferCopy(message, customerAudio, i * 2, i * 4),
          assistantAudio |-> assistantAudio, threw |-> TRUE]
  ELSE DeinterleaveLoop(message, i + 1,
                        BufferCopy(message, customerAudio, i * 2, i * 4),
                        BufferCopy(message, assistantAudio, i * 2, i * 4 + 2),
                        strict)

Deinterleave(message, strict) ==
  DeinterleaveLoop(message, 0, BufferAlloc(Len(message)), BufferAlloc(Len(message)), strict)

\* re-interleaving two mono chunks, two bytes of each in turn
Interleave(a, b) ==
  [k \in 1..(Len(a) + Len(b)) |->
     LET g == (k - 1) \div 4
         r == (k - 1) % 4
     IN IF r < 2 THEN a[2 * g + r + 1] ELSE b[2 * g + (r - 2) + 1]]

\* ------------------------------------------------------------- the relay
\* constructor(channel)
NewService ==
  [ws |-> 0, socks |-> <<>>, messageQueue |-> <<>>, ready |-> FALSE,
   finalTranscript |-> <<>>, partialTranscript |-> <<>>, lastSentPartial |-> <<>>,
   debounceTimer |-> "null", reconnectTimers |-> 0,
   \* debounce timers started and neither expired nor cancelled; the handle
   \* this.debounceTimer is that of the one started last
   debouncePending |-> 0,
   fault |-> "none",
   \* history: frames written upstream, emissions, token batches received,
   \* connection attempts started by send()
   tx |-> <<>>, emitted |-> <<>>, batches |-> <<>>, connectsFromSend |-> 0]

\* the configuration frame (chunks are numbered from 1)
ConfigFrame == 0

\* new WebSocket(SONIOX_WS_URL)
NewSocket == [readyState |-> "CONNECTING", errored |-> FALSE, opened |-> FALSE]

\* this.ws.readyState ("NULL" when this.ws is null)
ReadyState(s) == IF s.ws = 0 THEN "NULL" ELSE s.socks[s.ws].readyState

\* connect() without the guard
ConnectAlways(s) ==
  [s EXCEPT !.socks = Append(@, NewSocket), !.ws = Len(s.socks) + 1]

\* connect(): the guard and the socket creation; the handlers it registers are
\* the On... operators below.
Connect(s) ==
  IF s.ws # 0 /\ ReadyState(s) \in {"CONNECTING", "OPEN"}
    THEN s
    ELSE [s EXCEPT !.socks = Append(@, NewSocket), !.ws = Len(s.socks) + 1]

\* this.ws.send(frame): the frame goes out on an OPEN socket, the library
\* throws on a CONNECTING one and discards the frame on a closing/closed one.
WsSend(s, frame) ==
  IF ReadyState(s) = "OPEN"
    THEN [s EXCEPT !.tx = Append(@, [sock |-> s.ws, frame |-> frame])]
  ELSE IF ReadyState(s) \in {"CONNECTING", "NULL"}
    THEN [s EXCEPT !.fault = "threw"]
  ELSE s

\* this.ws.close()
WsClose(s) ==
  IF ReadyState(s) \in {"CONNECTING", "OPEN"}
    THEN [s EXCEPT !.socks[s.ws].readyState = "CLOSING"]
    ELSE s

\* send() that puts a chunk it cannot transmit at the head of the queue
SendUnshift(s, data) ==
  IF s.ready /\ ReadyState(s) = "OPEN"
    THEN WsSend(s, data)
    ELSE LET q == [s EXCEPT !.messageQueue = <<data>> \o @]
         IN IF q.ws = 0 \/ ReadyState(q) = "CLOSED"
              THEN [Connect(q) EXCEPT !.connectsFromSend = @ + 1]
              ELSE q

\* send() that queues but never starts a connection attempt
SendNoConnect(s, data) ==
  IF s.ready /\ ReadyState(s) = "OPEN"
    THEN WsSend(s, data)
    ELSE [s EXCEPT !.messageQueue = Append(@, data)]

\* send(data)
Send(s, data) ==
  IF s.ready /\ ReadyState(s) = "OPEN"
    THEN WsSend(s, data)
    ELSE LET q == [s EXCEPT !.messageQueue = Append(@, data)]
         IN IF q.ws = 0 \/ ReadyState(q) = "CLOSED"
              THEN [Connect(q) EXCEPT !.connectsFromSend = @ + 1]
              ELSE q

RECURSIVE DrainQueue(_)
\* while (this.messageQueue.length > 0) this.send(this.messageQueue.shift());
\* a send() that re-queues the chunk would keep the loop running forever.
DrainQueue(s) ==
  IF Len(s.messageQueue) = 0 \/ s.fault # "none" THEN s
  ELSE IF ~(s.ready /\ ReadyState(s) = "OPEN") THEN [s EXCEPT !.fault = "hung"]
  ELSE DrainQueue(Send([s EXCEPT !.messageQueue = Tail(@)], Head(s.messageQueue)))

\* an open handler that drains the queue before it sends the configuration
OnOpenDrainFirst(s, k) ==
  LET o == [s EXCEPT !.socks[k].readyState = "OPEN", !.socks[k].opened = TRUE]
      d == DrainQueue([o EXCEPT !.ready = TRUE])
  IN IF d.fault # "none" THEN d ELSE WsSend(d, ConfigFrame)

\* ws.on('open'): socket k has become OPEN
OnOpen(s, k) ==
  LET o == [s EXCEPT !.socks[k].readyState = "OPEN", !.socks[k].opened = TRUE]
      c == WsSend(o, ConfigFrame)
  IN IF c.fault # "none" THEN c ELSE DrainQueue([c EXCEPT !.ready = TRUE])

\* a close handler that schedules the reconnect whatever the queue holds
OnCloseAlways(s, k) ==
  [s EXCEPT !.socks[k].readyState = "CLOSED", !.ready = FALSE,
            !.reconnectTimers = @ + 1]

\* ws.on('close'): socket k has become CLOSED
OnClose(s, k) ==
  LET o == [s EXCEPT !.socks[k].readyState = "CLOSED", !.ready = FALSE]
  IN IF Len(o.messageQueue) > 0
       THEN [o EXCEPT !.reconnectTimers = @ + 1]
       ELSE o

\* ws.on('error'): socket k failed; the library closes it afterwards
OnError(s, k) ==
  [s EXCEPT !.socks[k].readyState = "CLOSING", !.socks[k].errored = TRUE,
            !.ready = FALSE, !.reconnectTimers = @ + 1]

\* --------------------------------------------------- transcript assembly
\* finalTranscript + partialTranscript, normalized
FullText(s) == Normalize(s.finalTranscript \o <<Space>> \o s.partialTranscript)

\* this.emit('transcription', text, this.channel); the record keeps, as
\* history, what caused the emission, the number of batches received and the
\* full text at that moment
Emit(s, text, via) ==
  [s EXCEPT !.emitted = Append(@, [text |-> text, via |-> via,
                                   batch |-> Len(s.batches),
                                   snapshot |-> FullText(s)])]

\* a final branch that forgets the clearTimeout
ClearDebounceNoop(s) == s

\* clearTimeout(this.debounceTimer) when the handle is set
ClearDebounce(s) ==
  IF s.debounceTimer = "armed"
    THEN [s EXCEPT !.debounceTimer = "cleared", !.debouncePending = @ - 1]
    ELSE s

RECURSIVE TokenLoop(_, _)
\* for (const token of message.tokens): a is the loop state
\* [hasFinal, newFinalText, partialTranscript]
TokenLoop(tokens, a) ==
  IF Len(tokens) = 0 THEN a
  ELSE LET token == Head(tokens)
           step ==
             IF token.is_final
               THEN IF StartsWithPunct(token.text)
                      THEN [a EXCEPT !.hasFinal = TRUE,
                                     !.newFinalText = @ \o token.text]
                      ELSE [a EXCEPT !.hasFinal = TRUE,
                                     !.newFinalText =
                                        (IF Len(@) > 0 /\ ~EndsWithSpace(@)
                                           THEN @ \o <<Space>> ELSE @) \o token.text]
               ELSE [a EXCEPT !.partialTranscript =
                                 @ \o (IF Len(@) > 0 THEN <<Space>> ELSE <<>>) \o token.text]
       IN TokenLoop(Tail(tokens), step)

\* a final branch that assigns the new finals instead of appending them
FinalBranchAssign(s, newFinalText) ==
  LET toSend == Normalize(newFinalText \o
                    (IF Len(s.partialTranscript) > 0
                       THEN <<Space>> \o s.partialTranscript ELSE <<>>))
      f == [s EXCEPT !.finalTranscript = newFinalText]
      e == Emit(f, toSend, "final")
  IN ClearDebounce([e EXCEPT !.partialTranscript = <<>>, !.lastSentPartial = <<>>])

\* if (hasFinal) { ... }
FinalBranch(s, newFinalText) ==
  LET toSend == Normalize(newFinalText \o
                    (IF Len(s.partialTranscript) > 0
                       THEN <<Space>> \o s.partialTranscript ELSE <<>>))
      f == [s EXCEPT !.finalTranscript =
                        @ \o (IF Len(@) > 0 THEN <<Space>> ELSE <<>>) \o newFinalText]
      e == Emit(f, toSend, "final")
  IN ClearDebounce([e EXCEPT !.partialTranscript = <<>>, !.lastSentPartial = <<>>])

\* a partial branch that starts a timer without cancelling the pending one
PartialBranchNoClear(s) ==
  [s EXCEPT !.debounceTimer = "armed", !.debouncePending = @ + 1]

\* else if (this.partialTranscript) { clearTimeout; setTimeout(...) }
PartialBranch(s) ==
  [ClearDebounce(s) EXCEPT !.debounceTimer = "armed", !.debouncePending = @ + 1]

\* if (message.tokens) { ... }
OnTokens(s, tokens) ==
  LET a == TokenLoop(tokens, [hasFinal |-> FALSE, newFinalText |-> <<>>,
                             partialTranscript |-> s.partialTranscript])
      p == [s EXCEPT !.partialTranscript = a.partialTranscript,
                     !.batches = Append(@, tokens)]
  IN IF a.hasFinal THEN FinalBranch(p, a.newFinalText)
     ELSE IF Len(p.partialTranscript) > 0 THEN PartialBranch(p)
     ELSE p

\* ws.on('message')
OnMessage(s, msg) ==
  IF msg.kind = "unparseable" THEN [s EXCEPT !.fault = "threw"]
  ELSE IF msg.kind \in {"error_code", "finished"} THEN WsClose(s)
  ELSE OnTokens(s, msg.tokens)

\* the setTimeout callback of the debounce timer
OnDebounce(s) ==
  LET normalizedPartial == Normalize(s.partialTranscript)
      added == Trim(Substring(normalizedPartial, Len(s.lastSentPartial)))
      \* timers of equal delay expire in the order they were started, so the
      \* handle's timer is the last of the pending ones to expire
      t == [s EXCEPT !.debouncePending = @ - 1,
                     !.debounceTimer = IF s.debouncePending = 1 THEN "fired" ELSE @]
  IN IF Len(added) > 0
       THEN [Emit(t, added, "debounce") EXCEPT !.lastSentPartial = normalizedPartial]
       ELSE t

\* ------------------------------------------------------------ the session
\* sendTranscript without the readyState test
PublishedAlways(old, new, channel) ==
  [k \in 1..(Len(new.emitted) - Len(old.emitted)) |->
     [transcription |-> new.emitted[Len(old.emitted) + k].text,
      channel |-> channel]]

\* sendTranscript, called synchronously for the emissions a handler added
Published(old, new, channel) ==
  IF downstream = "OPEN"
    THEN [k \in 1..(Len(new.emitted) - Len(old.emitted)) |->
            [transcription |-> new.emitted[Len(old.emitted) + k].text,
             channel |-> channel]]
    ELSE <<>>

Fault(f) == IF \E c \in Channels : f[c].fault = "hung" THEN "hung"
            ELSE IF \E c \in Channels : f[c].fault = "threw" THEN "crashed"
            ELSE "running"

\* one handler has run and left the services as f
Step(f) ==
  /\ \A c \in Channels : Len(f[c].socks) <= MaxSockets
  /\ svc' = f
  /\ proc' = Fault(f)

Init ==
  /\ svc = [c \in Channels |-> NewService]
  /\ downstream = "NONE"
  /\ delivered = <<>>
  /\ nFrames = 0
  /\ proc = "running"
  /\ demux = [message |-> <<>>, customerAudio |-> <<>>, assistantAudio |-> <<>>,
              threw |-> FALSE]

\* wss.on('connection')
Connection ==
  /\ proc = "running" /\ downstream = "NONE"
  /\ downstream' = "OPEN"
  /\ Step([c \in Channels |-> Connect(svc[c])])
  /\ UNCHANGED <<delivered, nFrames, demux>>

\* ws.on('message') with a Buffer
DownstreamBinary(message) ==
  /\ proc = "running" /\ downstream = "OPEN" /\ nFrames < MaxFrames
  /\ \E strict \in BOOLEAN :
       LET d == Deinterleave(message, strict)
       IN /\ demux' = [message |-> message, customerAudio |-> d.customerAudio,
                       assistantAudio |-> d.assistantAudio, threw |-> d.threw]
          /\ IF d.threw
               THEN /\ proc' = "crashed"
                    /\ svc' = svc
               ELSE Step([c \in Channels |-> Send(svc[c], nFrames + 1)])
  /\ nFrames' = nFrames + 1
  /\ UNCHANGED <<downstream, delivered>>

\* ws.on('close') of the downstream socket
DownstreamClose ==
  /\ proc = "running" /\ downstream = "OPEN"
  /\ downstream' = "CLOSED"
  /\ Step([c \in Channels |-> WsClose(svc[c])])
  /\ UNCHANGED <<delivered, nFrames, demux>>

\* the upstream socket k of channel c opens
UpstreamOpen(c, k) ==
  /\ proc = "running"
  /\ svc[c].socks[k].readyState = "CONNECTING"
  /\ Step([svc EXCEPT ![c] = OnOpen(svc[c], k)])
  /\ UNCHANGED <<downstream, delivered, nFrames, demux>>

\* the peer starts the closing handshake of socket k: no listener runs
UpstreamClosing(c, k) ==
  /\ proc = "running"
  /\ svc[c].socks[k].readyState = "OPEN"
  /\ svc' = [svc EXCEPT ![c].socks[k].readyState = "CLOSING"]
  /\ UNCHANGED <<downstream, delivered, nFrames, proc, demux>>

\* socket k of channel c reports an error (at most once per socket)
UpstreamError(c, k) ==
  /\ proc = "running"
  /\ svc[c].socks[k].readyState \in {"CONNECTING", "OPEN", "CLOSING"}
  /\ ~svc[c].socks[k].errored
  /\ Step([svc EXCEPT ![c] = OnError(svc[c], k)])
  /\ UNCHANGED <<downstream, delivered, nFrames, demux>>

\* socket k of channel c is closed (a failed handshake reports its error first,
\* which leaves the socket CLOSING)
UpstreamClose(c, k) ==
  /\ proc = "running"
  /\ svc[c].socks[k].readyState \in {"OPEN", "CLOSING"}
  /\ Step([svc EXCEPT ![c] = OnClose(svc[c], k)])
  /\ UNCHANGED <<downstream, delivered, nFrames, demux>>

\* a reconnect timer of channel c expires: () => this.connect()
ReconnectTimer(c) ==
  /\ proc = "running"
  /\ svc[c].reconnectTimers > 0
  /\ Step([svc EXCEPT ![c] = Connect([svc[c] EXCEPT !.reconnectTimers = @ - 1])])
  /\ UNCHANGED <<downstream, delivered, nFrames, demux>>

\* socket k of channel c, which has opened and has neither failed nor closed,
\* delivers a message
UpstreamMessage(c, k, msg) ==
  /\ proc = "running"
  /\ svc[c].socks[k].readyState \in {"OPEN", "CLOSING"}
  /\ svc[c].socks[k].opened
  /\ ~svc[c].socks[k].errored
  /\ msg.kind = "tokens" => Len(svc[c].batches) < MaxBatches
  /\ LET n == OnMessage(svc[c], msg)
     IN /\ Step([svc EXCEPT ![c] = n])
        /\ delivered' = delivered \o Published(svc[c], n, c)
  /\ UNCHANGED <<downstream, nFrames, demux>>

\* the debounce timer of channel c expires
DebounceExpire(c) ==
  /\ proc = "running"
  /\ svc[c].debouncePending > 0
  /\ LET n == OnDebounce(svc[c])
     IN /\ Step([svc EXCEPT ![c] = n])
        /\ delivered' = delivered \o Published(svc[c], n, c)
  /\ UNCHANGED <<downstream, nFrames, demux>>

\* ----------------------------------------------------------------- inputs
Tok(text, final) == [text |-> text, is_final |-> final]
Hel == <<"H", "e", "l">>
LoWorld == <<"l", "o", " ", "w", "o", "r", "l", "d", ".">>
HelloWorld == <<"H", "e", "l", "l", "o", " ", "w", "o", "r", "l", "d", ".">>
Dot == <<".">>

AsmTokens == {Tok(Hel, FALSE), Tok(LoWorld, TRUE), Tok(Dot, TRUE)}

Batches == UNION {[1..n -> AsmTokens] : n \in 1..MaxBatchLen}

TokenMsgs == {[kind |-> "tokens", tokens |-> b] : b \in Batches}
ControlMsgs == {[kind |-> "error_code", tokens |-> <<>>],
                [kind |-> "finished", tokens |-> <<>>]}
BadMsgs == {[kind |-> "unparseable", tokens |-> <<>>]}

RelayFrames == {<<0, 1, 1, 0>>}
Frames == UNION {[1..n -> Bytes] : n \in 0..MaxFrameLen}

Sockets(c) == 1..Len(svc[c].socks)

\* ---------------------------------------------- the session and its relays
Next ==
  \/ Connection
  \/ \E m \in RelayFrames : DownstreamBinary(m)
  \/ DownstreamClose
  \/ \E c \in Live : \E k \in Sockets(c) : UpstreamOpen(c, k)
  \/ \E c \in Live : \E k \in Sockets(c) : UpstreamClosing(c, k)
  \/ \E c \in Live : \E k \in Sockets(c) : UpstreamError(c, k)
  \/ \E c \in Live : \E k \in Sockets(c) : UpstreamClose(c, k)
  \/ \E c \in Live : \E k \in Sockets(c) : \E msg \in ControlMsgs :
       UpstreamMessage(c, k, msg)
  \/ \E c \in Live : ReconnectTimer(c)

Spec == Init /\ [][Next]_vars

\* ------------------------------------- one service assembling transcripts
NextAsm ==
  \/ Connection
  \/ DownstreamClose
  \/ \E c \in Live : \E k \in Sockets(c) : UpstreamOpen(c, k)
  \/ \E c \in Live : \E k \in Sockets(c) : UpstreamClose(c, k)
  \/ \E c \in Live : \E k \in Sockets(c) :
       \E msg \in TokenMsgs \cup ControlMsgs \cup BadMsgs : UpstreamMessage(c, k, msg)
  \/ \E c \in Live : DebounceExpire(c)

SpecAsm == Init /\ [][NextAsm]_vars

\* ----------------- de-interleaving of any frame, as the first of a session
NextDemux ==
  \/ Connection
  \/ \E m \in Frames : nFrames = 0 /\ DownstreamBinary(m)
  \/ \E c \in Live : \E k \in Sockets(c) : UpstreamOpen(c, k)

SpecDemux == Init /\ [][NextDemux]_vars

\* ============================================================ properties
\* the audio chunks among the frames written upstream
ChunksOf(tx) == SelectSeq(tx, LAMBDA f : f.frame # ConfigFrame)

\* no socket at all, or a fully closed one
Disconnected(s) == s.ws = 0 \/ ReadyState(s) = "CLOSED"

\* this step delivered the close event of socket k of channel c
CloseEvent(c, k) ==
  svc[c].socks[k].readyState # "CLOSED" /\ svc'[c].socks[k].readyState = "CLOSED"

\* this step delivered the error event of socket k of channel c
ErrorEvent(c, k) == ~svc[c].socks[k].errored /\ svc'[c].socks[k].errored

\* this step ran send() on both services with a new chunk
SendStep == nFrames' = nFrames + 1 /\ proc' = "running"

HasFinal(tokens) == \E i \in 1..Len(tokens) : tokens[i].is_final

RECURSIVE Flatten(_)
\* the emitted deltas, concatenated in order
Flatten(emitted) ==
  IF Len(emitted) = 0 THEN <<>> ELSE Head(emitted).text \o Flatten(Tail(emitted))

StripWs(s) == SelectSeq(s, LAMBDA ch : ch # Space)

\* C1: once the downstream connection has closed, no step schedules a
\* reconnect timer or opens a new upstream socket, for either relay.
C1_NoReconnectAfterTeardown ==
  [][downstream = "CLOSED" =>
       \A c \in Channels :
         /\ Len(svc'[c].socks) = Len(svc[c].socks)
         /\ svc'[c].reconnectTimers <= svc[c].reconnectTimers]_vars

\* C2: per channel the chunks written upstream appear in the order in which
\* they were passed to send() (chunks are numbered in that order).
C2_FifoTransmit ==
  \A c \in Channels :
    LET ch == ChunksOf(svc[c].tx)
    IN \A i, j \in 1..Len(ch) : i < j => ch[i].frame < ch[j].frame

\* three chunks went out, the last on another socket than the first, and one
\* of them out of the queue
C2_Witness ==
  \E c \in Channels :
    LET ch == ChunksOf(svc[c].tx)
    IN Len(ch) = 3 /\ ch[1].sock # ch[3].sock /\ svc[c].connectsFromSend > 0

\* C3: send() on a Disconnected relay appends the chunk to the queue and
\* creates exactly one new socket; send() while the socket is CONNECTING
\* appends the chunk and creates none.
C3_SendConnectsOnce ==
  [][\A c \in Channels :
       SendStep =>
         /\ Disconnected(svc[c]) =>
              /\ svc'[c].messageQueue = Append(svc[c].messageQueue, nFrames')
              /\ Len(svc'[c].socks) = Len(svc[c].socks) + 1
              /\ ReadyState(svc'[c]) = "CONNECTING"
         /\ ReadyState(svc[c]) = "CONNECTING" =>
              /\ svc'[c].messageQueue = Append(svc[c].messageQueue, nFrames')
              /\ svc'[c].socks = svc[c].socks]_vars

\* one send() found the relay Disconnected and connected, a later one found
\* it CONNECTING and only queued
C3_Witness ==
  \E c \in Channels :
    /\ svc[c].connectsFromSend = 1
    /\ Len(svc[c].socks) = 2
    /\ ReadyState(svc[c]) = "CONNECTING"
    /\ Len(svc[c].messageQueue) = 2

\* C4: the emitted deltas, concatenated in order, are the full text as of the
\* last emission (compared without whitespace, deltas being trimmed), so no
\* delta repeats text an earlier one carried.
C4_DeltaAdditivity ==
  \A c \in Channels :
    Len(svc[c].emitted) > 0 =>
      StripWs(Flatten(svc[c].emitted)) =
        StripWs(svc[c].emitted[Len(svc[c].emitted)].snapshot)

\* C5: the batch [Hel (partial)] followed, with no debounce expiry, by the
\* batch [lo world. (final)] emits exactly "Hello world.".
C5_HelloWorld ==
  \A c \in Channels :
    ( /\ svc[c].batches = << <<Tok(Hel, FALSE)>>, <<Tok(LoWorld, TRUE)>> >>
      /\ \A i \in 1..Len(svc[c].emitted) : svc[c].emitted[i].via = "final" )
    => /\ Len(svc[c].emitted) = 1
       /\ svc[c].emitted[1].text = HelloWorld

\* C6: the same partial batch twice gives at most one emission, wherever the
\* debounce timer expires.
C6_RepeatedPartial ==
  \A c \in Channels :
    svc[c].batches = << <<Tok(Hel, FALSE)>>, <<Tok(Hel, FALSE)>> >>
    => Len(svc[c].emitted) <= 1

\* C7: a batch with a final token that arrives while the debounce timer is
\* pending emits in that very step and leaves the timer cancelled; a
\* timer-driven emission only ever follows a partial-only batch.
C7_FinalBypassesDebounce ==
  [][\A c \in Channels :
       LET old == svc[c]
           new == svc'[c]
       IN /\ ( /\ old.debounceTimer = "armed"
               /\ Len(new.batches) = Len(old.batches) + 1
               /\ HasFinal(new.batches[Len(new.batches)]) )
             => /\ Len(new.emitted) = Len(old.emitted) + 1
                /\ new.emitted[Len(new.emitted)].via = "final"
                /\ new.debounceTimer = "cleared"
          /\ ( /\ Len(new.emitted) > Len(old.emitted)
               /\ new.emitted[Len(new.emitted)].via = "debounce" )
             => /\ Len(new.batches) > 0
                /\ ~HasFinal(new.batches[Len(new.batches)])]_vars

\* a final batch came in on a pending timer: emitted, timer cancelled
C7_Witness ==
  \E c \in Channels :
    /\ Len(svc[c].batches) = 2
    /\ ~HasFinal(svc[c].batches[1])
    /\ HasFinal(svc[c].batches[2])
    /\ svc[c].debounceTimer = "cleared"
    /\ Len(svc[c].emitted) = 1
    /\ svc[c].emitted[1].via = "final"

\* C8: a frame of length 4n splits into two chunks of length 2n holding the
\* bytes 4i, 4i+1 and 4i+2, 4i+3 of every group, and re-interleaving the
\* chunks gives the frame back.
C8_DemuxRoundTrip ==
  (nFrames >= 1 /\ Len(demux.message) % 4 = 0) =>
    LET n == Len(demux.message) \div 4
    IN /\ ~demux.threw
       /\ Len(demux.customerAudio) = 2 * n
       /\ Len(demux.assistantAudio) = 2 * n
       /\ \A i \in 0..(n - 1) :
            /\ demux.customerAudio[2 * i + 1] = demux.message[4 * i + 1]
            /\ demux.customerAudio[2 * i + 2] = demux.message[4 * i + 2]
            /\ demux.assistantAudio[2 * i + 1] = demux.message[4 * i + 3]
            /\ demux.assistantAudio[2 * i + 2] = demux.message[4 * i + 4]
       /\ Interleave(demux.customerAudio, demux.assistantAudio) = demux.message

\* a frame of two groups whose four sample pairs all differ was split
C8_Witness ==
  /\ nFrames = 1
  /\ demux.message = <<0, 0, 0, 1, 1, 0, 1, 1>>
  /\ demux.customerAudio = <<0, 0, 1, 0>>
  /\ demux.assistantAudio = <<0, 1, 1, 1>>

\* C9: for a frame whose length is no multiple of 4 the two chunks handed to
\* the relays hold the bytes of the complete groups only.
C9_TrailingDropped ==
  (nFrames >= 1 /\ Len(demux.message) % 4 # 0 /\ ~demux.threw) =>
    LET n == Len(demux.message) \div 4
    IN /\ Len(demux.customerAudio) = 2 * n
       /\ Len(demux.assistantAudio) = 2 * n
       /\ Interleave(demux.customerAudio, demux.assistantAudio)
            = SubSeq(demux.message, 1, 4 * n)

\* C10 as stated: a close or an error event leaves the relay not ready and
\* schedules a reconnect only if the queue is non-empty.
C10_ReconnectOnlyIfQueued ==
  [][\A c \in Channels : \A k \in 1..Len(svc[c].socks) :
       (CloseEvent(c, k) \/ ErrorEvent(c, k)) =>
         /\ ~svc'[c].ready
         /\ svc'[c].reconnectTimers > svc[c].reconnectTimers
              => Len(svc[c].messageQueue) > 0]_vars

\* C10 amended: both events leave the relay not ready; a close event
\* schedules one reconnect exactly if the queue is non-empty, an error event
\* schedules one whatever the queue holds.
C10_ReconnectPolicy ==
  [][\A c \in Channels : \A k \in 1..Len(svc[c].socks) :
       /\ CloseEvent(c, k) =>
            /\ ~svc'[c].ready
            /\ svc'[c].reconnectTimers =
                 svc[c].reconnectTimers + (IF Len(svc[c].messageQueue) > 0 THEN 1 ELSE 0)
       /\ ErrorEvent(c, k) =>
            /\ ~svc'[c].ready
            /\ svc'[c].reconnectTimers = svc[c].reconnectTimers + 1]_vars

\* with no audio ever sent, a socket reported an error and then closed: one
\* reconnect is pending, from the error
C10_Witness ==
  \E c \in Channels :
    /\ nFrames = 0
    /\ Len(svc[c].socks) = 1
    /\ svc[c].socks[1].errored
    /\ svc[c].socks[1].readyState = "CLOSED"
    /\ svc[c].reconnectTimers = 1
    /\ ~svc[c].ready

\* the emissions channel c added in this step, as downstream frames
NewDeltas(c) ==
  [k \in 1..(Len(svc'[c].emitted) - Len(svc[c].emitted)) |->
     [transcription |-> svc'[c].emitted[Len(svc[c].emitted) + k].text,
      channel |-> c]]

RECURSIVE PartialText(_)
\* the texts of the partial tokens of a batch, concatenated
PartialText(tokens) ==
  IF Len(tokens) = 0 THEN <<>>
  ELSE (IF Head(tokens).is_final THEN <<>> ELSE Head(tokens).text)
         \o PartialText(Tail(tokens))

\* C11: a delta reaches the downstream socket only in the step that emits it
\* and only if the socket is open then; otherwise nothing is written, then or
\* later.
C11_DeliverOnlyIfOpen ==
  [][/\ downstream # "OPEN" => delivered' = delivered
     /\ downstream = "OPEN" =>
          \E c \in Channels :
            /\ delivered' = delivered \o NewDeltas(c)
            /\ \A o \in Channels \ {c} : Len(NewDeltas(o)) = 0]_vars

\* the debounce timer expired after the session closed: its delta was
\* emitted and is not among the delivered frames
C11_Witness ==
  \E c \in Channels :
    /\ downstream = "CLOSED"
    /\ Len(svc[c].emitted) = 2
    /\ svc[c].emitted[2].via = "debounce"
    /\ Len(delivered) = 1

\* C12: no handler ends in an unhandled failure; the process keeps running.
C12_NeverFatal == proc = "running"

\* C13: after a partial-only batch the pending text is the text of that
\* batch's partial tokens alone (compared without whitespace).
C13_PendingReplaced ==
  [][\A c \in Channels :
       ( /\ Len(svc'[c].batches) = Len(svc[c].batches) + 1
         /\ ~HasFinal(svc'[c].batches[Len(svc'[c].batches)]) )
       => StripWs(svc'[c].partialTranscript)
            = StripWs(PartialText(svc'[c].batches[Len(svc'[c].batches)]))]_vars

\* the frames written on socket k
FramesOn(tx, k) == SelectSeq(tx, LAMBDA f : f.sock = k)

\* the sockets of a service that are CONNECTING or OPEN
ActiveSockets(s) ==
  {k \in 1..Len(s.socks) : s.socks[k].readyState \in {"CONNECTING", "OPEN"}}

\* C14: a relay never has more than one upstream socket CONNECTING or OPEN.
C14_OneActiveSocket ==
  \A c \in Channels : Cardinality(ActiveSockets(svc[c])) <= 1

\* a reconnect timer is pending while the third socket of the relay is OPEN
C14_Witness ==
  \E c \in Channels :
    /\ Len(svc[c].socks) = 3
    /\ ReadyState(svc[c]) = "OPEN"
    /\ svc[c].reconnectTimers >= 1
    /\ svc[c].connectsFromSend >= 1

\* C15: on every socket that has opened the first frame written is the
\* configuration and it is the only configuration frame; nothing is written
\* on a socket that has not opened.
C15_ConfigFirst ==
  \A c \in Channels : \A k \in 1..Len(svc[c].socks) :
    LET fr == FramesOn(svc[c].tx, k)
    IN IF svc[c].socks[k].opened
         THEN /\ Len(fr) >= 1
              /\ fr[1].frame = ConfigFrame
              /\ \A i \in 2..Len(fr) : fr[i].frame # ConfigFrame
         ELSE Len(fr) = 0

\* two sockets have carried audio, the second one a chunk out of the queue
C15_Witness ==
  \E c \in Channels :
    /\ Len(ChunksOf(FramesOn(svc[c].tx, 1))) >= 1
    /\ Len(ChunksOf(FramesOn(svc[c].tx, 2))) >= 1
    /\ svc[c].socks[2].opened

\* C17: while the current socket is OPEN (its open handler has run) the
\* relay's ready flag is true.
C17_ReadyWhileOpen ==
  \A c \in Channels : ReadyState(svc[c]) = "OPEN" => svc[c].ready

\* ------------------- the session under a scheduler that lets events happen
\* a connection attempt of channel c succeeds
OpenSome(c) == \E k \in Sockets(c) : UpstreamOpen(c, k)

\* a socket of channel c that is CLOSING gets its close event
CloseSome(c) ==
  \E k \in Sockets(c) : svc[c].socks[k].readyState = "CLOSING" /\ UpstreamClose(c, k)

\* timers expire, closing sockets close, connection attempts succeed; an
\* open socket is never forced to fail
Fairness ==
  \A c \in Live :
    /\ WF_vars(ReconnectTimer(c))
    /\ WF_vars(OpenSome(c))
    /\ WF_vars(CloseSome(c))

SpecLive == Init /\ [][Next]_vars /\ Fairness

\* the session is over, the process has stopped, or the relay has used up
\* the sockets it may create
Excused(c) ==
  downstream # "OPEN" \/ proc # "running" \/ Len(svc[c].socks) = MaxSockets

Queued(c, n) == \E i \in 1..Len(svc[c].messageQueue) : svc[c].messageQueue[i] = n

Transmitted(c, n) == \E i \in 1..Len(svc[c].tx) : svc[c].tx[i].frame = n

\* C16: while the session lasts, every chunk that is put in the queue is
\* eventually written upstream.
C16_EventuallyTransmitted ==
  \A c \in Live : \A n \in 1..MaxFrames :
    Queued(c, n) ~> (Transmitted(c, n) \/ Excused(c))

\* C18: at most one debounce timer is pending; a pending timer is the one
\* the latest batch, a partial-only one, started; and no two timer-driven
\* emissions belong to the same batch.
C18_OneDebounceTimer ==
  \A c \in Channels :
    /\ svc[c].debouncePending <= 1
    /\ svc[c].debouncePending > 0 =>
         /\ Len(svc[c].batches) > 0
         /\ ~HasFinal(svc[c].batches[Len(svc[c].batches)])
         /\ svc[c].debounceTimer = "armed"
    /\ \A i, j \in 1..Len(svc[c].emitted) :
         ( /\ i < j
           /\ svc[c].emitted[i].via = "debounce"
           /\ svc[c].emitted[j].via = "debounce" )
         => svc[c].emitted[i].batch < svc[c].emitted[j].batch

\* a second partial-only batch came in while the timer of the first was
\* pending: one timer is pending and nothing was emitted
C18_Witness ==
  \E c \in Channels :
    /\ Len(svc[c].batches) = 2
    /\ ~HasFinal(svc[c].batches[1])
    /\ ~HasFinal(svc[c].batches[2])
    /\ svc[c].debouncePending = 1
    /\ Len(svc[c].emitted) = 0

\* token batches of a single token
SingleMsgs == {[kind |-> "tokens", tokens |-> <<t>>] : t \in AsmTokens}

\* --------------------- one service assembling across upstream disconnects
NextCommit ==
  \/ Connection
  \/ DownstreamClose
  \/ \E c \in Live : \E k \in Sockets(c) : UpstreamOpen(c, k)
  \/ \E c \in Live : \E k \in Sockets(c) : UpstreamError(c, k)
  \/ \E c \in Live : \E k \in Sockets(c) : UpstreamClose(c, k)
  \/ \E c \in Live : \E k \in Sockets(c) :
       \E msg \in SingleMsgs \cup ControlMsgs : UpstreamMessage(c, k, msg)
  \/ \E c \in Live : ReconnectTimer(c)
  \/ \E c \in Live : DebounceExpire(c)

SpecCommit == Init /\ [][NextCommit]_vars

\* C19: every step leaves the old finalTranscript as a prefix of the new one,
\* and a step that is not a token batch leaves it unchanged.
C19_CommittedGrows ==
  [][\A c \in Channels :
       /\ IsPrefix(svc[c].finalTranscript, svc'[c].finalTranscript)
       /\ svc'[c].batches = svc[c].batches
            => svc'[c].finalTranscript = svc[c].finalTranscript]_vars

\* two batches with finals were committed, the first socket failed and was
\* replaced, and a finished or error_code message has closed the second
C19_Witness ==
  \E c \in Channels :
    /\ Len(svc[c].batches) = 2
    /\ HasFinal(svc[c].batches[1])
    /\ HasFinal(svc[c].batches[2])
    /\ Len(svc[c].finalTranscript) > Len(LoWorld)
    /\ Len(svc[c].socks) = 2
    /\ svc[c].socks[1].errored
    /\ ReadyState(svc[c]) = "CLOSING"
    /\ downstream = "OPEN"

\* C20: the snapshot of what was last emitted is a prefix of the normalized
\* finalTranscript + partialTranscript.
C20_SnapshotPrefix ==
  \A c \in Channels : IsPrefix(svc[c].lastSentPartial, FullText(svc[c]))

====
